---- MODULE Spec2Model ----
(***************************************************************************)
(* Model of backend/ocr/index.py: the single function handler(event,       *)
(* context).  One invocation is a run of the state machine below: pc is    *)
(* the position inside handler, the other variables are its locals.        *)
(*                                                                         *)
(* Python strings are sequences of Unicode code points, so that lower(),   *)
(* strip(), split(','), base64.b64decode, json.loads and re.search are     *)
(* modelled by what they do on characters.                                 *)
(***************************************************************************)
EXTENDS Integers, Sequences, FiniteSets, TLC

VARIABLES event, world, pc, method, body_str, image_base64, image_bytes,
          text, exc, response

vars == <<event, world, pc, method, body_str, image_base64, image_bytes,
          text, exc, response>>

(***************************************************************************)
(* Bounds of the model.                                                    *)
(***************************************************************************)
\* longest enumerated value of the "image" field, in characters
MaxImgLen == 4
\* most pieces (words, spelled-out words, separators) in a recognized text
MaxItems == 2

(***************************************************************************)
(* Characters.                                                             *)
(***************************************************************************)
Comma == 44
Newline == 10
Space == 32
Pad == 61
Quote == 34
Hyphen == 45

\* str.isspace() for the code points below U+3000
PyWhitespace == {9, 10, 11, 12, 13, 28, 29, 30, 31, 32, 133, 160}

\* whitespace skipped by json.loads between tokens
JsonWhitespace == {32, 9, 10, 13}

(***************************************************************************)
(* Python values: t is the type, s the characters of a str, n the value of *)
(* an int or bool or the number of entries of a list or dict.              *)
(***************************************************************************)
PyStr(s) == [t |-> "str", s |-> s, n |-> 0]
PyNone == [t |-> "NoneType", s |-> <<>>, n |-> 0]
PyInt(n) == [t |-> "int", s |-> <<>>, n |-> n]
PyBool(b) == [t |-> "bool", s |-> <<>>, n |-> IF b THEN 1 ELSE 0]
PyList(n) == [t |-> "list", s |-> <<>>, n |-> n]
PyDict(n) == [t |-> "dict", s |-> <<>>, n |-> n]

\* Python truth value: `not v` is ~Truthy(v)
Truthy(v) ==
    CASE v.t = "str" -> v.s # <<>>
      [] v.t = "NoneType" -> FALSE
      [] OTHER -> v.n # 0

(***************************************************************************)
(* str.lower(), str.strip(), str.split(',')[1], ',' in str                 *)
(***************************************************************************)
\* lower-casing of one code point (Basic Latin and Cyrillic blocks)
LowerChar(c) ==
    IF (c >= 65 /\ c <= 90) \/ (c >= 1040 /\ c <= 1071) THEN c + 32
    ELSE IF c >= 1024 /\ c <= 1039 THEN c + 80
    ELSE c

Lower(s) == [i \in 1..Len(s) |-> LowerChar(s[i])]

Strip(s) ==
    LET keep == {i \in 1..Len(s) : s[i] \notin PyWhitespace}
        first == CHOOSE i \in keep : \A j \in keep : i <= j
        last == CHOOSE i \in keep : \A j \in keep : j <= i
    IN IF keep = {} THEN <<>> ELSE SubSeq(s, first, last)

Contains(s, c) == \E i \in 1..Len(s) : s[i] = c

\* positions of the separator c in s, and the k-th of them
Positions(s, c) == {i \in 1..Len(s) : s[i] = c}

KthPosition(s, c, k) ==
    CHOOSE i \in Positions(s, c) : Cardinality({j \in Positions(s, c) : j <= i}) = k

\* s.split(c)[1]: the field between the first separator and the second
\* (or the end of s); only used when s contains the separator
SplitSecond(s, c) ==
    LET p1 == KthPosition(s, c, 1)
        p2 == IF Cardinality(Positions(s, c)) >= 2 THEN KthPosition(s, c, 2)
              ELSE Len(s) + 1
    IN SubSeq(s, p1 + 1, p2 - 1)

(***************************************************************************)
(* base64.b64decode(s) with the default validate=False: a str must be      *)
(* ASCII; binascii.a2b_base64 then skips every character outside the       *)
(* alphabet, stops at the padding that completes a quad, and fails when    *)
(* the data characters leave a quad incomplete.                            *)
(***************************************************************************)
\* the 6-bit value of a character of the standard alphabet, -1 for any other
B64Value(c) ==
    IF c >= 65 /\ c <= 90 THEN c - 65
    ELSE IF c >= 97 /\ c <= 122 THEN c - 71
    ELSE IF c >= 48 /\ c <= 57 THEN c + 4
    ELSE IF c = 43 THEN 62
    ELSE IF c = 47 THEN 63
    ELSE -1

B64Ok(bytes) == [ok |-> TRUE, bytes |-> bytes, type |-> "", msg |-> ""]

B64Fail(type, msg) == [ok |-> FALSE, bytes |-> <<>>, type |-> type, msg |-> msg]

RECURSIVE A2bBase64(_, _, _, _, _, _)
A2bBase64(s, i, quad_pos, leftchar, pads, out) ==
    IF i > Len(s)
    THEN IF quad_pos = 0 THEN B64Ok(out)
         ELSE IF quad_pos = 1
         THEN B64Fail("binascii.Error",
                      "Invalid base64-encoded string: number of data characters cannot be 1 more than a multiple of 4")
         ELSE B64Fail("binascii.Error", "Incorrect padding")
    ELSE LET c == s[i]
             v == B64Value(c)
         IN IF c = Pad
            THEN IF quad_pos >= 2 /\ quad_pos + pads + 1 >= 4
                 THEN B64Ok(out)
                 ELSE A2bBase64(s, i + 1, quad_pos, leftchar,
                                IF quad_pos >= 2 THEN pads + 1 ELSE pads, out)
            ELSE IF v = -1
            THEN A2bBase64(s, i + 1, quad_pos, leftchar, pads, out)
            ELSE CASE quad_pos = 0 ->
                        A2bBase64(s, i + 1, 1, v, 0, out)
                   [] quad_pos = 1 ->
                        A2bBase64(s, i + 1, 2, v % 16, 0,
                                  Append(out, leftchar * 4 + (v \div 16)))
                   [] quad_pos = 2 ->
                        A2bBase64(s, i + 1, 3, v % 4, 0,
                                  Append(out, leftchar * 16 + (v \div 4)))
                   [] OTHER ->
                        A2bBase64(s, i + 1, 0, 0, 0,
                                  Append(out, leftchar * 64 + v))

B64Decode(s) ==
    IF \E i \in 1..Len(s) : s[i] > 127
    THEN B64Fail("ValueError", "string argument should contain only ASCII characters")
    ELSE A2bBase64(s, 1, 0, 0, 0, <<>>)

(***************************************************************************)
(* re.search(pattern, string, re.IGNORECASE) for patterns made of literal  *)
(* characters, `.*` and top-level `|`.  A pattern is a sequence of         *)
(* alternatives, an alternative a sequence of elements; the search runs    *)
(* the alternative's automaton from every position of the string.  `.`     *)
(* matches any character except a newline (no re.DOTALL).                  *)
(***************************************************************************)
Lit(c) == [dotstar |-> FALSE, c |-> c]
DotStar == [dotstar |-> TRUE, c |-> 0]

Word(w) == [i \in 1..Len(w) |-> Lit(w[i])]

\* w[1] .* w[2] .* ... .* w[n]
Spread(w) ==
    [i \in 1..(2 * Len(w) - 1) |->
        IF i % 2 = 1 THEN Lit(w[(i + 1) \div 2]) ELSE DotStar]

\* whether `.` matches the character
DotMatches(ch) == ch # Newline

\* whether the literal c of the pattern matches the character, ignoring case
LitMatches(c, ch) == LowerChar(c) = LowerChar(ch)

\* k is the number of elements already matched; a `.*` may match nothing
RECURSIVE Closure(_, _)
Closure(alt, S) ==
    LET more == S \cup {k + 1 : k \in {j \in S : j < Len(alt) /\ alt[j + 1].dotstar}}
    IN IF more = S THEN S ELSE Closure(alt, more)

Advance(alt, S, ch) ==
    Closure(alt,
        {0}
        \cup {k + 1 : k \in {j \in S : j < Len(alt) /\ ~alt[j + 1].dotstar
                                       /\ LitMatches(alt[j + 1].c, ch)}}
        \cup {k \in S : k < Len(alt) /\ alt[k + 1].dotstar /\ DotMatches(ch)})

RECURSIVE SearchFrom(_, _, _, _)
SearchFrom(alt, string, i, S) ==
    IF Len(alt) \in S THEN TRUE
    ELSE IF i > Len(string) THEN FALSE
    ELSE SearchFrom(alt, string, i + 1, Advance(alt, S, string[i]))

ReSearch(pattern, string) ==
    \E a \in 1..Len(pattern) :
        SearchFrom(pattern[a], string, 1, Closure(pattern[a], {0}))

CyrAlpha == <<1072, 1083, 1100, 1092, 1072>>
LatAlpha == <<97, 108, 112, 104, 97>>
CyrOmega == <<1086, 1084, 1077, 1075, 1072>>
LatOmega == <<111, 109, 101, 103, 97>>

\* r'альфа|alpha|а.*л.*ь.*ф.*а'
AlphaPattern == <<Word(CyrAlpha), Word(LatAlpha), Spread(CyrAlpha)>>

\* r'омега|omega|о.*м.*е.*г.*а'
OmegaPattern == <<Word(CyrOmega), Word(LatOmega), Spread(CyrOmega)>>

\* 'Альфа' and 'Омега', the labels
LabelAlpha == <<1040, 1083, 1100, 1092, 1072>>
LabelOmega == <<1054, 1084, 1077, 1075, 1072>>

(***************************************************************************)
(* json.loads(s) for documents made of objects, arrays, strings without    *)
(* escapes, integers and null/true/false.  A result carries the parsed     *)
(* value; for an object, members is the sequence of its (key, value)       *)
(* pairs in document order.  The contents of a nested container are not    *)
(* kept, only its size: handler reads the top-level object alone.  An      *)
(* error message omits the "line .. column .." suffix.                     *)
(***************************************************************************)
JsonOk(pos, val, members) ==
    [ok |-> TRUE, pos |-> pos, val |-> val, members |-> members, msg |-> ""]

JsonFail(msg) ==
    [ok |-> FALSE, pos |-> 0, val |-> PyNone, members |-> <<>>, msg |-> msg]

RECURSIVE SkipWs(_, _)
SkipWs(s, i) ==
    IF i <= Len(s) /\ s[i] \in JsonWhitespace THEN SkipWs(s, i + 1) ELSE i

CharAt(s, i) == IF i >= 1 /\ i <= Len(s) THEN s[i] ELSE -1

StartsWith(s, i, w) ==
    /\ i + Len(w) - 1 <= Len(s)
    /\ \A k \in 1..Len(w) : s[i + k - 1] = w[k]

IsDigit(c) == c >= 48 /\ c <= 57

\* s[i] is the opening quote: the characters up to the closing quote
ScanString(s, i) ==
    LET closing == {j \in (i + 1)..Len(s) : s[j] = Quote}
        j == CHOOSE j \in closing : \A k \in closing : j <= k
    IN IF closing = {} THEN JsonFail("Unterminated string starting at")
       ELSE JsonOk(j + 1, PyStr(SubSeq(s, i + 1, j - 1)), <<>>)

RECURSIVE DigitsEnd(_, _)
DigitsEnd(s, i) == IF IsDigit(CharAt(s, i)) THEN DigitsEnd(s, i + 1) ELSE i

RECURSIVE DigitsValue(_, _, _, _)
DigitsValue(s, i, end, acc) ==
    IF i >= end THEN acc ELSE DigitsValue(s, i + 1, end, acc * 10 + (s[i] - 48))

\* -?(0|[1-9][0-9]*)
ScanNumber(s, i) ==
    LET neg == CharAt(s, i) = Hyphen
        d == IF neg THEN i + 1 ELSE i
        end == IF CharAt(s, d) = 48 THEN d + 1 ELSE DigitsEnd(s, d)
        n == DigitsValue(s, d, end, 0)
    IN IF ~IsDigit(CharAt(s, d)) THEN JsonFail("Expecting value")
       ELSE JsonOk(end, PyInt(IF neg THEN 0 - n ELSE n), <<>>)

RECURSIVE ScanOnce(_, _), ScanMembers(_, _, _), ScanElements(_, _, _)
\* the value that starts at s[i]
ScanOnce(s, i) ==
    LET c == CharAt(s, i)
    IN CASE c = Quote -> ScanString(s, i)
         [] c = 123 ->
              LET j == SkipWs(s, i + 1)
              IN IF CharAt(s, j) = 125 THEN JsonOk(j + 1, PyDict(0), <<>>)
                 ELSE IF CharAt(s, j) = Quote THEN ScanMembers(s, j, <<>>)
                 ELSE JsonFail("Expecting property name enclosed in double quotes")
         [] c = 91 ->
              LET j == SkipWs(s, i + 1)
              IN IF CharAt(s, j) = 93 THEN JsonOk(j + 1, PyList(0), <<>>)
                 ELSE ScanElements(s, j, 0)
         [] StartsWith(s, i, <<110, 117, 108, 108>>) -> JsonOk(i + 4, PyNone, <<>>)
         [] StartsWith(s, i, <<116, 114, 117, 101>>) -> JsonOk(i + 4, PyBool(TRUE), <<>>)
         [] StartsWith(s, i, <<102, 97, 108, 115, 101>>) -> JsonOk(i + 5, PyBool(FALSE), <<>>)
         [] OTHER -> ScanNumber(s, i)

\* s[i] is the opening quote of a key; acc holds the members before it
ScanMembers(s, i, acc) ==
    LET key == ScanString(s, i)
        colon == SkipWs(s, key.pos)
        value == ScanOnce(s, SkipWs(s, colon + 1))
        after == SkipWs(s, value.pos)
        next == SkipWs(s, after + 1)
        members == Append(acc, [key |-> key.val.s, value |-> value.val])
    IN IF ~key.ok THEN key
       ELSE IF CharAt(s, colon) # 58 THEN JsonFail("Expecting ':' delimiter")
       ELSE IF ~value.ok THEN value
       ELSE IF CharAt(s, after) = 125
       THEN JsonOk(after + 1, PyDict(Len(members)), members)
       ELSE IF CharAt(s, after) # Comma THEN JsonFail("Expecting ',' delimiter")
       ELSE IF CharAt(s, next) # Quote
       THEN JsonFail("Expecting property name enclosed in double quotes")
       ELSE ScanMembers(s, next, members)

\* s[i] starts an element; count elements precede it
ScanElements(s, i, count) ==
    LET value == ScanOnce(s, i)
        after == SkipWs(s, value.pos)
    IN IF ~value.ok THEN value
       ELSE IF CharAt(s, after) = 93 THEN JsonOk(after + 1, PyList(count + 1), <<>>)
       ELSE IF CharAt(s, after) # Comma THEN JsonFail("Expecting ',' delimiter")
       ELSE ScanElements(s, SkipWs(s, after + 1), count + 1)

JsonLoads(s) ==
    LET doc == ScanOnce(s, SkipWs(s, 1))
    IN IF ~doc.ok THEN doc
       ELSE IF SkipWs(s, doc.pos) # Len(s) + 1 THEN JsonFail("Extra data")
       ELSE doc

\* dict.get(key, default): the last member with the key wins
DictGet(members, key, default) ==
    LET hits == {i \in 1..Len(members) : members[i].key = key}
        last == CHOOSE i \in hits : \A j \in hits : j <= i
    IN IF hits = {} THEN default ELSE members[last].value

(***************************************************************************)
(* Responses.  body.dumped says whether body is a json.dumps(...) of an    *)
(* object (keys names its fields) or the literal ''.                       *)
(***************************************************************************)
Absent == PyNone

Body(keys, error, value, raw_text, confidence, note) ==
    [dumped |-> TRUE, keys |-> keys, error |-> error, value |-> value,
     raw_text |-> raw_text, confidence |-> confidence, note |-> note]

EmptyBody ==
    [dumped |-> FALSE, keys |-> {}, error |-> "", value |-> Absent,
     raw_text |-> Absent, confidence |-> "", note |-> ""]

ErrorBody(msg) == Body({"error"}, msg, Absent, Absent, "", "")

JsonHeaders ==
    ("Content-Type" :> "application/json") @@ ("Access-Control-Allow-Origin" :> "*")

PreflightHeaders ==
    ("Access-Control-Allow-Origin" :> "*")
    @@ ("Access-Control-Allow-Methods" :> "POST, OPTIONS")
    @@ ("Access-Control-Allow-Headers" :> "Content-Type")
    @@ ("Access-Control-Max-Age" :> "86400")

Response(statusCode, headers, body) ==
    [statusCode |-> statusCode, headers |-> headers, body |-> body,
     isBase64Encoded |-> FALSE]

NoResponse == Response(0, JsonHeaders, EmptyBody)

\* fault: the preflight answer built with the JSON headers added
PreflightResponseJson == Response(200, PreflightHeaders @@ JsonHeaders, EmptyBody)

PreflightResponse == Response(200, PreflightHeaders, EmptyBody)

MethodNotAllowedResponse == Response(405, JsonHeaders, ErrorBody("Method not allowed"))

ImageRequiredResponse == Response(400, JsonHeaders, ErrorBody("Image data required"))

\* 'OCR libraries not available'
NotAvailableText ==
    <<79, 67, 82, 32, 108, 105, 98, 114, 97, 114, 105, 101, 115, 32, 110, 111,
      116, 32, 97, 118, 97, 105, 108, 97, 98, 108, 101>>

\* fault: a missing OCR library reported as a server error
OcrUnavailableAsError ==
    Response(503, JsonHeaders,
             Body({"value", "raw_text", "confidence", "note"}, "", PyNone,
                  PyStr(NotAvailableText), "none",
                  "Install Pillow, pytesseract, and tesseract-ocr"))

OcrUnavailableResponse ==
    Response(200, JsonHeaders,
             Body({"value", "raw_text", "confidence", "note"}, "", PyNone,
                  PyStr(NotAvailableText), "none",
                  "Install Pillow, pytesseract, and tesseract-ocr"))

\* fault: the error answer built without the CORS header
ExceptionResponseNoCors(e) ==
    Response(500, ("Content-Type" :> "application/json"), ErrorBody(e.msg))

ExceptionResponse(e) == Response(500, JsonHeaders, ErrorBody(e.msg))

(***************************************************************************)
(* Classification of the recognized text.                                  *)
(***************************************************************************)
TextClean(t) == Strip(Lower(t))

\* fault: the omega pattern tried first
DetectedValueOmegaFirst(text_clean) ==
    IF ReSearch(OmegaPattern, text_clean) THEN PyStr(LabelOmega)
    ELSE IF ReSearch(AlphaPattern, text_clean) THEN PyStr(LabelAlpha)
    ELSE PyNone

DetectedValue(text_clean) ==
    IF ReSearch(AlphaPattern, text_clean) THEN PyStr(LabelAlpha)
    ELSE IF ReSearch(OmegaPattern, text_clean) THEN PyStr(LabelOmega)
    ELSE PyNone

Confidence(detected_value) == IF Truthy(detected_value) THEN "high" ELSE "low"

SuccessResponse(detected_value, t) ==
    Response(200, JsonHeaders,
             Body({"value", "raw_text", "confidence"}, "", detected_value,
                  PyStr(t), Confidence(detected_value), ""))

(***************************************************************************)
(* Exceptions.                                                             *)
(***************************************************************************)
Exc(type, msg) == [type |-> type, msg |-> msg]

NoExc == Exc("", "")

(***************************************************************************)
(* The requests and the behaviours of the OCR libraries the model covers.  *)
(***************************************************************************)
Present(v) == [has |-> TRUE, v |-> v]

NoMethod == [has |-> FALSE, v |-> ""]

NoBody == [has |-> FALSE, v |-> PyNone]

\* event.get(key, default)
EventGet(field, default) == IF field.has THEN field.v ELSE default

Methods == {Present("POST"), Present("OPTIONS"), Present("GET"), Present("post"), NoMethod}

ImgAlphabet == {81, Pad, Comma, Hyphen}

RECURSIVE StringsOver(_, _)
StringsOver(alphabet, n) ==
    IF n = 0 THEN {<<>>}
    ELSE LET shorter == StringsOver(alphabet, n - 1)
         IN shorter \cup {Append(w, c) : w \in shorter, c \in alphabet}

\* 'data:image/png;base64,'
DataUrlPrefix ==
    <<100, 97, 116, 97, 58, 105, 109, 97, 103, 101, 47, 112, 110, 103, 59, 98,
      97, 115, 101, 54, 52, 44>>

SampleImages ==
    { DataUrlPrefix \o <<81, 85, 74, 68>>,                     \* ...,QUJD
      DataUrlPrefix \o <<81, 85, 74>>,                         \* ...,QUJ
      DataUrlPrefix \o <<81, 85, 74, 68, 44, 81, 81, 61, 61>>, \* ...,QUJD,QQ==
      <<81, 85, 74, 68>>,                                      \* QUJD
      <<81, 85, 74, 68, 44, 82, 69, 86, 71, 44, 82, 48, 104, 74>>, \* QUJD,REVG,R0hJ
      <<1103>> }                                               \* a non-ASCII letter

Images == (StringsOver(ImgAlphabet, MaxImgLen) \ {<<>>}) \cup SampleImages

\* '{"image":"' image '"}'
ImageBody(image) ==
    <<123, 34, 105, 109, 97, 103, 101, 34, 58, 34>> \o image \o <<34, 125>>

OtherBodies ==
    { <<>>,   \* ''
      <<32>>,   \* ' '
      <<32, 10, 9>>,   \* ' \n\t'
      <<11>>,   \* '\x0b'
      <<123, 125>>,   \* '{}'
      <<32, 123, 125, 32, 10>>,   \* ' {} \n'
      <<11, 123, 125>>,   \* '\x0b{}'
      <<123, 32, 125>>,   \* '{ }'
      <<91, 93>>,   \* '[]'
      <<110, 117, 108, 108>>,   \* 'null'
      <<53>>,   \* '5'
      <<34, 97, 98, 99, 34>>,   \* '"abc"'
      <<123>>,   \* '{'
      <<123, 125, 32, 120>>,   \* '{} x'
      <<123, 34, 105, 109, 97, 103, 101, 34>>,   \* '{"image"'
      <<123, 34, 105, 109, 97, 103, 101, 34, 58, 34, 81, 81, 61, 61>>,   \* '{"image":"QQ=='
      <<123, 39, 105, 109, 97, 103, 101, 39, 58, 39, 81, 81, 61, 61, 39, 125>>,   \* "{'image':'QQ=='}"
      <<123, 34, 111, 116, 104, 101, 114, 34, 58, 49, 125>>,   \* '{"other":1}'
      <<123, 34, 105, 109, 97, 103, 101, 34, 58, 34, 34, 125>>,   \* '{"image":""}'
      <<123, 34, 105, 109, 97, 103, 101, 34, 58, 110, 117, 108, 108, 125>>,   \* '{"image":null}'
      <<123, 34, 105, 109, 97, 103, 101, 34, 58, 48, 125>>,   \* '{"image":0}'
      <<123, 34, 105, 109, 97, 103, 101, 34, 58, 102, 97, 108, 115, 101, 125>>,   \* '{"image":false}'
      <<123, 34, 105, 109, 97, 103, 101, 34, 58, 91, 93, 125>>,   \* '{"image":[]}'
      <<123, 34, 105, 109, 97, 103, 101, 34, 58, 123, 125, 125>>,   \* '{"image":{}}'
      <<123, 34, 105, 109, 97, 103, 101, 34, 58, 53, 125>>,   \* '{"image":5}'
      <<123, 34, 105, 109, 97, 103, 101, 34, 58, 116, 114, 117, 101, 125>>,   \* '{"image":true}'
      <<123, 34, 105, 109, 97, 103, 101, 34, 58, 91, 34, 81, 81, 61, 61, 34, 93, 125>>,   \* '{"image":["QQ=="]}'
      <<123, 34, 105, 109, 97, 103, 101, 34, 58, 123, 34, 97, 34, 58, 49, 125, 125>>,   \* '{"image":{"a":1}}'
      <<123, 34, 105, 109, 97, 103, 101, 34, 58, 34, 34, 44, 34, 105, 109, 97, 103, 101, 34, 58, 34, 81, 81, 61, 61, 34, 125>>,   \* '{"image":"","image":"QQ=="}'
      <<123, 34, 105, 109, 97, 103, 101, 34, 58, 34, 81, 81, 61, 61, 34, 44, 34, 105, 109, 97, 103, 101, 34, 58, 34, 34, 125>>,   \* '{"image":"QQ==","image":""}'
      <<123, 34, 111, 116, 104, 101, 114, 34, 58, 34, 81, 81, 61, 61, 34, 44, 32, 34, 105, 109, 97, 103, 101, 34, 32, 58, 32, 34, 81, 81, 61, 61, 34, 125>>   \* '{"other":"QQ==", "image" : "QQ=="}'
    }

\* the body field of the event: absent, None, a str, or (from a caller that
\* passes a parsed body) an int or a dict
Bodies ==
    {NoBody, Present(PyNone), Present(PyInt(5)), Present(PyDict(1))}
    \cup {Present(PyStr(b)) : b \in OtherBodies}
    \cup {Present(PyStr(ImageBody(i))) : i \in Images}

Requests == [httpMethod : Methods, body : Bodies]

SampleRequests ==
    { [httpMethod |-> Present("POST"),
       body |-> Present(PyStr(ImageBody(DataUrlPrefix \o <<81, 85, 74, 68>>)))] }

\* w[1] sep w[2] sep ... sep w[n]
RECURSIVE Spell(_, _)
Spell(w, sep) ==
    IF Len(w) <= 1 THEN w ELSE <<Head(w)>> \o sep \o Spell(Tail(w), sep)

Items ==
    { CyrAlpha, Spell(CyrAlpha, <<Hyphen>>), Spell(CyrAlpha, <<Newline>>),
      <<1040, 1051, 1068, 1060, 1040>>,      \* 'АЛЬФА'
      <<65, 76, 80, 72, 65>>,                \* 'ALPHA'
      CyrOmega, Spell(CyrOmega, <<Hyphen>>), Spell(CyrOmega, <<Newline>>),
      <<79, 77, 69, 71, 65>>,                \* 'OMEGA'
      <<1073, 1077, 1090, 1072>>,            \* 'бета'
      <<Space>>, <<Newline>> }

RECURSIVE TextsOf(_)
TextsOf(n) ==
    IF n = 0 THEN {<<>>}
    ELSE LET shorter == TextsOf(n - 1)
         IN shorter \cup {t \o i : t \in shorter, i \in Items}

Texts == TextsOf(MaxItems)

SampleTexts ==
    { <<>>, <<1040, 1083, 1100, 1092, 1072, 10>>,   \* 'Альфа\n'
      <<79, 77, 69, 71, 65>>,                       \* 'OMEGA'
      <<1073, 1077, 1090, 1072>> }                  \* 'бета'

\* available: PIL and pytesseract can be imported; image_ok: Image.open
\* accepts the bytes; engine_ok: image_to_string returns; text: what it returns
World(available, image_ok, engine_ok, t) ==
    [available |-> available, image_ok |-> image_ok, engine_ok |-> engine_ok,
     text |-> t]

FailingWorlds ==
    { World(FALSE, FALSE, FALSE, <<>>), World(TRUE, FALSE, FALSE, <<>>),
      World(TRUE, TRUE, FALSE, <<>>) }

SampleWorlds == FailingWorlds \cup {World(TRUE, TRUE, TRUE, t) : t \in SampleTexts}

Worlds == FailingWorlds \cup {World(TRUE, TRUE, TRUE, t) : t \in Texts}

(***************************************************************************)
(* handler(event, context), one action per step of its body.               *)
(***************************************************************************)
Init ==
    /\ \E rw \in (Requests \X SampleWorlds) \cup (SampleRequests \X Worlds) :
          /\ event = rw[1]
          /\ world = rw[2]
    /\ pc = "start"
    /\ method = ""
    /\ body_str = PyNone
    /\ image_base64 = PyNone
    /\ image_bytes = <<>>
    /\ text = <<>>
    /\ exc = NoExc
    /\ response = NoResponse

Return(r) ==
    /\ response' = r
    /\ pc' = "done"
    /\ exc' = exc

Raise(e) ==
    /\ exc' = e
    /\ pc' = "except"
    /\ response' = response

Goto(label) ==
    /\ pc' = label
    /\ exc' = exc
    /\ response' = response

\* fault: the method compared without regard to case
MethodBranchAnyCase(m) ==
    IF m \in {"OPTIONS", "options"} THEN "preflight"
    ELSE IF m \notin {"POST", "post"} THEN "not_allowed"
    ELSE "post"

\* the method test of lines 13-34, given the method read from the event
MethodBranch(m) ==
    IF m = "OPTIONS" THEN "preflight"
    ELSE IF m # "POST" THEN "not_allowed"
    ELSE "post"

\* lines 13-34
Dispatch ==
    /\ pc = "start"
    /\ method' = EventGet(event.httpMethod, "GET")
    /\ CASE MethodBranch(method') = "preflight" -> Return(PreflightResponse)
         [] MethodBranch(method') = "not_allowed" -> Return(MethodNotAllowedResponse)
         [] OTHER -> Goto("body")
    /\ UNCHANGED <<event, world, body_str, image_base64, image_bytes, text>>

\* fault: a blank body not treated as empty
BodyIsEmptyNoBlank(b) ==
    \/ ~Truthy(b)
    \/ Strip(b.s) = <<123, 125>>

\* the test of line 38 on a str body
BodyIsEmpty(b) ==
    \/ ~Truthy(b)
    \/ Strip(b.s) = <<123, 125>>
    \/ Strip(b.s) = <<>>

\* lines 37-44
CheckBody ==
    /\ pc = "body"
    /\ body_str' = EventGet(event.body, PyStr(<<123, 125>>))
    /\ IF ~Truthy(body_str') THEN Return(ImageRequiredResponse)
       ELSE IF body_str'.t # "str"
       THEN Raise(Exc("AttributeError", "object has no attribute 'strip'"))
       ELSE IF BodyIsEmpty(body_str') THEN Return(ImageRequiredResponse)
       ELSE Goto("loads")
    /\ UNCHANGED <<event, world, method, image_base64, image_bytes, text>>

\* body_data.get('image', '')
ImageField(members) == DictGet(members, <<105, 109, 97, 103, 101>>, PyStr(<<>>))

\* lines 46-55
ParseBody ==
    /\ pc = "loads"
    /\ LET body_data == JsonLoads(body_str.s)
       IN IF ~body_data.ok
          THEN /\ Raise(Exc("JSONDecodeError", body_data.msg))
               /\ UNCHANGED image_base64
          ELSE IF body_data.val.t # "dict"
          THEN /\ Raise(Exc("AttributeError", "object has no attribute 'get'"))
               /\ UNCHANGED image_base64
          ELSE /\ image_base64' = ImageField(body_data.members)
               /\ IF ~Truthy(image_base64') THEN Return(ImageRequiredResponse)
                  ELSE Goto("b64decode")
    /\ UNCHANGED <<event, world, method, body_str, image_bytes, text>>

\* the argument of base64.b64decode at line 57, for a str
Base64Part(image) ==
    IF Contains(image, Comma) THEN SplitSecond(image, Comma) ELSE image

\* the exceptions line 57 raises for an image that is not a str: an int or
\* bool is no container; a list or dict has no split() and is no bytes-like
\* object
NonStrErrors(t) ==
    IF t \in {"int", "bool"}
    THEN {Exc("TypeError", "argument of type is not iterable")}
    ELSE {Exc("AttributeError", "object has no attribute 'split'"),
          Exc("TypeError", "argument should be a bytes-like object or ASCII string")}

\* line 57
DecodeImage ==
    /\ pc = "b64decode"
    /\ IF image_base64.t = "str"
       THEN LET decoded == B64Decode(Base64Part(image_base64.s))
            IN IF decoded.ok
               THEN /\ image_bytes' = decoded.bytes
                    /\ Goto("import")
               ELSE /\ Raise(Exc(decoded.type, decoded.msg))
                    /\ UNCHANGED image_bytes
       ELSE /\ \E e \in NonStrErrors(image_base64.t) : Raise(e)
            /\ UNCHANGED image_bytes
    /\ UNCHANGED <<event, world, method, body_str, image_base64, text>>

\* lines 60-62: the imports raise ImportError when a library is missing
ImportOcr ==
    /\ pc = "import"
    /\ IF world.available THEN Goto("open")
       ELSE /\ exc' = Exc("ImportError", "No module named 'PIL'")
            /\ pc' = "except_import"
            /\ response' = response
    /\ UNCHANGED <<event, world, method, body_str, image_base64, image_bytes, text>>

\* line 64: Image.open rejects bytes that are no image
OpenImage ==
    /\ pc = "open"
    /\ IF world.image_ok /\ image_bytes # <<>> THEN Goto("ocr")
       ELSE Raise(Exc("UnidentifiedImageError", "cannot identify image file"))
    /\ UNCHANGED <<event, world, method, body_str, image_base64, image_bytes, text>>

\* line 66
Recognize ==
    /\ pc = "ocr"
    /\ IF world.engine_ok
       THEN /\ text' = world.text
            /\ Goto("classify")
       ELSE /\ Raise(Exc("TesseractError", "tesseract failed"))
            /\ UNCHANGED text
    /\ UNCHANGED <<event, world, method, body_str, image_base64, image_bytes>>

\* fault: raw_text filled with the lower-cased, trimmed copy
RawTextClean(t) == TextClean(t)

\* the text placed in raw_text at line 80
RawText(t) == t

\* lines 67-84
Classify ==
    /\ pc = "classify"
    /\ Return(SuccessResponse(DetectedValue(TextClean(text)), RawText(text)))
    /\ UNCHANGED <<event, world, method, body_str, image_base64, image_bytes, text>>

\* lines 86-97
ExceptImportError ==
    /\ pc = "except_import"
    /\ Return(OcrUnavailableResponse)
    /\ UNCHANGED <<event, world, method, body_str, image_base64, image_bytes, text>>

\* the classes raised above that `except Exception` (line 99) catches: all
\* of them derive from Exception
ExceptionClasses ==
    {"AttributeError", "TypeError", "ValueError", "JSONDecodeError",
     "binascii.Error", "UnidentifiedImageError", "TesseractError", "ImportError"}

\* fault: the clause written as `except ValueError`
CatchesValueErrorOnly(e) == e.type \in {"ValueError", "JSONDecodeError", "binascii.Error"}

Catches(e) == e.type \in ExceptionClasses

\* lines 99-105; an exception the clause does not catch leaves handler.
\* (The exceptions of lines 64 and 66 are no ImportError, so the clause of
\* line 86 lets them through to this one.)
ExceptException ==
    /\ pc = "except"
    /\ IF Catches(exc) THEN Return(ExceptionResponse(exc)) ELSE Goto("unhandled")
    /\ UNCHANGED <<event, world, method, body_str, image_base64, image_bytes, text>>

Next ==
    \/ Dispatch
    \/ CheckBody
    \/ ParseBody
    \/ DecodeImage
    \/ ImportOcr
    \/ OpenImage
    \/ Recognize
    \/ Classify
    \/ ExceptImportError
    \/ ExceptException

Spec == Init /\ [][Next]_vars

(***************************************************************************)
(* Properties.                                                             *)
(***************************************************************************)
Done == pc = "done"

\* the method of the request, 'GET' when the event has none
RequestMethod == IF event.httpMethod.has THEN event.httpMethod.v ELSE "GET"

HasHeader(name, value) ==
    /\ name \in DOMAIN response.headers
    /\ response.headers[name] = value

IsErrorResponse(status, msg) ==
    /\ response.statusCode = status
    /\ response.body.dumped
    /\ response.body.keys = {"error"}
    /\ response.body.error = msg

\* the request carries a str body
HasStrBody == event.body.has /\ event.body.v.t = "str"

BodyChars == event.body.v.s

\* C1: every response handler returns, on every path, has the header
\* Access-Control-Allow-Origin with the value "*".
C1_CorsOnEveryResponse == Done => HasHeader("Access-Control-Allow-Origin", "*")

C1_Witness ==
    /\ Done
    /\ response.statusCode = 500
    /\ exc.type = "binascii.Error"
    /\ HasHeader("Access-Control-Allow-Origin", "*")

\* the request passes the checks of the body and of the image field and its
\* image, as line 57 cuts it, decodes: handler gets as far as the imports
ReachesImport ==
    /\ RequestMethod = "POST"
    /\ HasStrBody
    /\ Strip(BodyChars) # <<>>
    /\ Strip(BodyChars) # <<123, 125>>
    /\ LET doc == JsonLoads(BodyChars)
           image == DictGet(doc.members, <<105, 109, 97, 103, 101>>, PyStr(<<>>))
       IN /\ doc.ok
          /\ doc.val.t = "dict"
          /\ image.t = "str"
          /\ image.s # <<>>
          /\ B64Decode(IF Contains(image.s, Comma)
                       THEN SplitSecond(image.s, Comma) ELSE image.s).ok

IsUnavailableResponse ==
    /\ response.statusCode = 200
    /\ response.body.dumped
    /\ "value" \in response.body.keys
    /\ response.body.value = PyNone
    /\ response.body.confidence = "none"

\* C2 as stated: every POST request handled while the OCR libraries cannot
\* be loaded is answered with status 200, value null, confidence "none".
C2_UnavailableAlways200 ==
    (Done /\ RequestMethod = "POST" /\ ~world.available) => IsUnavailableResponse

\* C2, amended: a POST request handled while the OCR libraries cannot be
\* loaded is answered with status 200, value null, confidence "none"
\* whenever it has a non-empty string image whose base64 part decodes; the
\* requests rejected before the imports keep their 400 or 500 answer.
C2_UnavailableAfterDecode ==
    /\ (Done /\ ReachesImport /\ ~world.available) => IsUnavailableResponse
    /\ (Done /\ RequestMethod = "POST" /\ ~ReachesImport /\ ~world.available)
          => response.statusCode \in {400, 500}

C2_Witness ==
    /\ Done
    /\ ReachesImport
    /\ ~world.available
    /\ IsUnavailableResponse
    /\ response.body.raw_text = PyStr(NotAvailableText)

\* everything after the first comma of s, or s when it has no comma
AfterFirstComma(s) ==
    IF Contains(s, Comma)
    THEN SubSeq(s, (CHOOSE i \in Positions(s, Comma) :
                       \A j \in Positions(s, Comma) : i <= j) + 1, Len(s))
    ELSE s

\* C3: the bytes handed to the image decoder are the base64 decoding of all
\* that follows the first comma of the image (of the whole image when it
\* has no comma), and decoding fails exactly when decoding that remainder
\* fails.
C3_DecodesWholeRemainder ==
    LET whole == B64Decode(AfterFirstComma(image_base64.s))
    IN /\ (pc = "import" /\ image_base64.t = "str")
            => (whole.ok /\ whole.bytes = image_bytes)
       /\ (pc = "except" /\ image_base64.t = "str"
             /\ exc.type \in {"binascii.Error", "ValueError"})
            => ~whole.ok

\* the letters of w occur in s in this order, anything between them
RECURSIVE InOrder(_, _)
InOrder(w, s) ==
    IF w = <<>> THEN TRUE
    ELSE IF s = <<>> THEN FALSE
    ELSE IF Head(w) = Head(s) THEN InOrder(Tail(w), Tail(s))
    ELSE InOrder(w, Tail(s))

HasWord(w, s) ==
    \E i \in 1..(Len(s) - Len(w) + 1) : SubSeq(s, i, i + Len(w) - 1) = w

\* the recognized text names alpha (omega), read without regard to case
NamesAlpha(t) == InOrder(CyrAlpha, Lower(t)) \/ HasWord(LatAlpha, Lower(t))

NamesOmega(t) == InOrder(CyrOmega, Lower(t)) \/ HasWord(LatOmega, Lower(t))

\* handler returned from line 75: the libraries loaded, the image opened
\* and the engine returned a text
Succeeded ==
    /\ Done
    /\ response.statusCode = 200
    /\ response.body.keys = {"value", "raw_text", "confidence"}

\* C4: on the success path the value is "Альфа" whenever the text contains
\* "альфа" or "alpha" or the letters а, л, ь, ф, а in order with arbitrary
\* characters between them, "Омега" likewise for omega, and null with
\* confidence "low" when the text matches neither.
C4_ClassifiesAnySeparators ==
    Succeeded =>
        /\ NamesAlpha(world.text) => response.body.value = PyStr(LabelAlpha)
        /\ (NamesOmega(world.text) /\ ~NamesAlpha(world.text))
              => response.body.value = PyStr(LabelOmega)
        /\ (~NamesAlpha(world.text) /\ ~NamesOmega(world.text))
              => (response.body.value = PyNone /\ response.body.confidence = "low")

\* the failures of processing a POST request
ProcessingFailures ==
    {"JSONDecodeError", "AttributeError", "TypeError", "ValueError",
     "binascii.Error", "UnidentifiedImageError", "TesseractError"}

\* C5: no exception raised while a POST request is processed leaves
\* handler: each becomes a response with status 500 and body
\* {"error": <message>}, and a body that json.loads rejects gets a 500
\* with a non-empty message.
C5_FailuresBecome500 ==
    /\ pc # "unhandled"
    /\ (Done /\ exc.type \in ProcessingFailures)
          => (IsErrorResponse(500, exc.msg) /\ RequestMethod = "POST")
    /\ (Done /\ RequestMethod = "POST" /\ HasStrBody
          /\ Strip(BodyChars) # <<>> /\ Strip(BodyChars) # <<123, 125>>
          /\ ~JsonLoads(BodyChars).ok)
          => (response.statusCode = 500 /\ response.body.keys = {"error"}
                /\ response.body.error # "")

C5_Witness ==
    /\ Done
    /\ exc.type = "JSONDecodeError"
    /\ BodyChars = <<123>>
    /\ IsErrorResponse(500, "Expecting property name enclosed in double quotes")

\* the body is a JSON object without an image field, or with an empty one
ImageOmittedOrEmpty ==
    LET doc == JsonLoads(BodyChars)
    IN /\ doc.ok
       /\ doc.val.t = "dict"
       /\ DictGet(doc.members, <<105, 109, 97, 103, 101>>, PyStr(<<>>)) = PyStr(<<>>)

\* C6: a POST request whose body is empty, blank, "{}" or a JSON object
\* with the image field omitted or empty is answered with status 400 and
\* {"error": "Image data required"}, whether or not OCR is available.
C6_ImageRequired ==
    (Done /\ RequestMethod = "POST" /\ HasStrBody
        /\ (\/ Strip(BodyChars) = <<>>
            \/ Strip(BodyChars) = <<123, 125>>
            \/ ImageOmittedOrEmpty))
      => IsErrorResponse(400, "Image data required")

C6_Witness ==
    /\ Done
    /\ RequestMethod = "POST"
    /\ HasStrBody
    /\ Strip(BodyChars) # <<>>
    /\ Strip(BodyChars) # <<123, 125>>
    /\ ImageOmittedOrEmpty
    /\ world.available
    /\ IsErrorResponse(400, "Image data required")

\* C7: a request whose method is neither OPTIONS nor POST (none counts as
\* GET) is answered with status 405 and {"error": "Method not allowed"}
\* whatever its body; the body is never read or parsed and no OCR step
\* runs.
C7_MethodNotAllowed ==
    RequestMethod \notin {"OPTIONS", "POST"} =>
        /\ pc \in {"start", "done"}
        /\ Done => IsErrorResponse(405, "Method not allowed")
        /\ body_str = PyNone
        /\ image_base64 = PyNone
        /\ image_bytes = <<>>
        /\ text = <<>>
        /\ exc = NoExc

C7_Witness ==
    /\ Done
    /\ ~event.httpMethod.has
    /\ HasStrBody
    /\ JsonLoads(BodyChars).ok
    /\ world.available
    /\ IsErrorResponse(405, "Method not allowed")

\* C8: a request with method OPTIONS, whatever its body, is answered with
\* status 200, the empty string as body, no Content-Type header, and the
\* headers Access-Control-Allow-Methods "POST, OPTIONS",
\* Access-Control-Allow-Headers "Content-Type", Access-Control-Max-Age
\* "86400".
C8_Preflight ==
    RequestMethod = "OPTIONS" =>
        /\ pc \in {"start", "done"}
        /\ Done =>
             /\ response.statusCode = 200
             /\ ~response.body.dumped
             /\ response.body = EmptyBody
             /\ "Content-Type" \notin DOMAIN response.headers
             /\ HasHeader("Access-Control-Allow-Methods", "POST, OPTIONS")
             /\ HasHeader("Access-Control-Allow-Headers", "Content-Type")
             /\ HasHeader("Access-Control-Max-Age", "86400")

C8_Witness ==
    /\ Done
    /\ RequestMethod = "OPTIONS"
    /\ HasStrBody
    /\ BodyChars # <<>>
    /\ response.statusCode = 200
    /\ HasHeader("Access-Control-Max-Age", "86400")

\* C9: in a 200 response with a confidence field, confidence is "high"
\* exactly when value is "Альфа" or "Омега", "low" or "none" exactly when
\* value is null, "none" only when the OCR libraries are unavailable; on
\* the success path raw_text is the text the engine returned, not its
\* lower-cased and trimmed copy.
C9_ConfidenceFollowsValue ==
    (Done /\ response.statusCode = 200 /\ "confidence" \in response.body.keys) =>
        /\ response.body.confidence \in {"high", "low", "none"}
        /\ response.body.confidence = "high"
              <=> response.body.value \in {PyStr(LabelAlpha), PyStr(LabelOmega)}
        /\ response.body.confidence \in {"low", "none"}
              <=> response.body.value = PyNone
        /\ response.body.confidence = "none" => ~world.available
        /\ Succeeded => response.body.raw_text = PyStr(world.text)

C9_Witness ==
    /\ Succeeded
    /\ response.body.confidence = "high"
    /\ response.body.value = PyStr(LabelAlpha)
    /\ response.body.raw_text = PyStr(world.text)
    /\ world.text # Strip(Lower(world.text))

\* C10: the alpha pattern is tried first: a text that matches both
\* patterns gets "Альфа", and "Омега" is returned only for a text that
\* matches the omega pattern and not the alpha pattern.
C10_AlphaBeforeOmega ==
    Succeeded =>
        LET clean == Strip(Lower(world.text))
        IN /\ (ReSearch(AlphaPattern, clean) /\ ReSearch(OmegaPattern, clean))
                 => response.body.value = PyStr(LabelAlpha)
           /\ response.body.value = PyStr(LabelOmega)
                 => (ReSearch(OmegaPattern, clean) /\ ~ReSearch(AlphaPattern, clean))

C10_Witness ==
    /\ Succeeded
    /\ ReSearch(AlphaPattern, Strip(Lower(world.text)))
    /\ ReSearch(OmegaPattern, Strip(Lower(world.text)))
    /\ response.body.value = PyStr(LabelAlpha)

====
